---- MODULE Spec2Model ----
(***************************************************************************)
(* A model of the LifeLens front end (task polling, chat page, chat store, *)
(* SSE client) together with the parts of the back end that the front end  *)
(* only calls (task registry and dispatcher, conversation engine).  Each    *)
(* subsystem has its own specification over its own group of variables;     *)
(* the other groups stay unchanged.                                         *)
(***************************************************************************)
EXTENDS Integers, Sequences, FiniteSets, TLC

VARIABLES
  \* ---- task polling (frontend/src/hooks/useMedia.ts)
  queryData,      \* query.state.data.status per task id, "undefined" before any result
  fetching,       \* a getTaskStatus request is in flight
  refetchTimer,   \* the interval react-query currently polls with, 0 when off
  mounted,
  reported,       \* the status TaskStatusPoller last passed to onStatusChange, "none" before
        \* useTaskStatus is mounted for the task id (enabled && !!taskId)
  \* ---- task registry and dispatcher (back end, spec sections 4.1 and 4.5)
  taskStatus,     \* registry status per task id, "none" before create
  taskDetail,     \* the error detail recorded with a failed task
  requeues,       \* how often the task was requeued after a liveness timeout
  deliveries,     \* queue deliveries of the task id not yet dequeued
  holders,        \* how many workers of the pool hold the task
  polled,         \* the status the last get_task of the task id returned
  refused,        \* a late or duplicate claim of the task was logged and ignored
  duplicates,     \* the status updates that reached a terminal task once more
  \* ---- conversation engine (back end, spec section 4.6)
  loopPc,         \* "idle", "calling" (a provider call is out), "done", "error"
  loopSteps,      \* steps counted against the step bound
  loopCalls,      \* provider calls made for the request
  loopHistory,    \* the history passed to the provider, as turn kinds
  loopEvents,     \* the events emitted to the caller
  loopDetail,     \* the detail of the error that ended the loop
  loopLast,       \* the kind of the provider's last response
  \* ---- chat store (stores/chatStore.ts)
  currentConversation, \* the selected conversation id, 0 for null
  messages,       \* the displayed message list
  isStreaming,    \* the streaming flag the send guard reads
  \* ---- chat page and api.sendMessage, one entry per sendMessage call
  nCalls,         \* sendMessage calls made so far
  callPc,         \* "unused", "fetching", "reading", "returned", "thrown"
  callConv,       \* the conversation id the call was made for
  fullContent,    \* the call's fullContent accumulator
  buffer,         \* the read loop's buffer (the last incomplete line)
  delivered,      \* the events the call's onEvent has received
  \* ---- the messages query (hooks/useChat.ts useMessages)
  msgLoaded,      \* the query of the conversation holds data
  msgData,        \* that data (messagesData)
  msgFetching,    \* a getMessages request of the conversation is in flight
  \* ---- the back end's side of a chat request (spec sections 4.6, 5, 6)
  wire,           \* response body tokens sent and not yet read
  srvState,       \* "none", "open", "ended", "closed", "cut"
  srvCount,       \* events the engine has emitted on the stream
  srvText,        \* the text the engine has produced for the request
  serverHist,     \* the durable message history per conversation
  \* ---- upload page (pages/Upload.tsx), one entry per handleFiles call
  uploadingFiles, \* the uploadingFiles list: rows [file, status, progress, taskId]
  nBatches,       \* handleFiles calls made so far
  batchPc,        \* "unused", "uploading", "succeeded", "rejected"
  batchSize,      \* newFiles.length of the call
  batchStart,     \* the list index of the call's first row when it was appended
  ticked,         \* the progress intervals <<batch, index>> that have fired
  rowData,        \* per row: the task status its TaskStatusPoller's query holds
  effectPending,  \* per row: its poller's effect is due (a dependency changed)
  statusCalls,    \* onStatusChange calls made so far
  \* ---- the read loop of api.sendMessage on one body, run under two chunkings
  rdKinds,        \* the lines the body was written from, as line kinds
  rdTerminated,   \* whether the last line is followed by a newline
  rdText,         \* the body: the concatenated response text, as tokens
  rdPos,          \* per run: the tokens reader.read() has returned so far
  rdBuffer,       \* per run: the buffer variable
  rdEvents,       \* per run: the events handed to onEvent, in order
  rdPc,           \* per run: "reading" or "returned"
  \* ---- auth store (stores/authStore.ts) and the api calls that touch it
  token,          \* <<>> is null, <<s>> the token string s
  isAuthenticated,
  authLog,        \* the setAuth and logout calls made, in order
  apiLog,         \* the finished api calls: method, response status, status of the ApiError thrown (0: none)
  \* ---- DashboardLayout: deleting a conversation
  conversationToDelete, \* the conversationToDelete state, 0 is null
  deleteDialogOpen,
  deletePc,       \* "idle", or "pending" while confirmDeleteConversation awaits
  deleteTarget,   \* conversationToDelete as the pending call's closure holds it
  deleteCurrent,  \* currentConversation as the pending call's closure holds it
  deletedConvs,   \* the conversations the back end has deleted
  convList,       \* the data of the conversations query (the sidebar list)
  convListFetching

pollVars == <<queryData, fetching, refetchTimer, mounted, reported>>
taskVars == <<taskStatus, taskDetail, requeues, deliveries, holders, polled,
             refused>>

loopVars == <<loopPc, loopSteps, loopCalls, loopHistory, loopEvents, loopDetail,
             loopLast>>

storeVars == <<currentConversation, messages, isStreaming>>
callVars == <<nCalls, callPc, callConv, fullContent, buffer, delivered>>
queryVars == <<msgLoaded, msgData, msgFetching>>
serverVars == <<wire, srvState, srvCount, srvText, serverHist>>
chatVars == <<storeVars, callVars, queryVars, serverVars>>

uploadVars == <<uploadingFiles, nBatches, batchPc, batchSize, batchStart, ticked,
                rowData, effectPending, statusCalls>>

readVars == <<rdKinds, rdTerminated, rdText, rdPos, rdBuffer, rdEvents, rdPc>>

authVars == <<token, isAuthenticated, authLog, apiLog>>

deleteVars == <<conversationToDelete, deleteDialogOpen, deletePc, deleteTarget,
                deleteCurrent, deletedConvs, convList, convListFetching>>

vars == <<pollVars, taskVars, duplicates, loopVars, chatVars, uploadVars, readVars,
          authVars, deleteVars>>

\* What the actions of one subsystem leave unchanged.
nonPollVars == <<taskVars, duplicates, loopVars, chatVars, uploadVars, readVars, authVars, deleteVars>>
nonTaskVars == <<pollVars, duplicates, loopVars, chatVars, uploadVars, readVars, authVars, deleteVars>>
nonLoopVars == <<pollVars, taskVars, duplicates, chatVars, uploadVars, readVars, authVars, deleteVars>>
nonChatVars == <<pollVars, taskVars, duplicates, loopVars, uploadVars, readVars, authVars, deleteVars>>
nonUploadVars == <<pollVars, taskVars, duplicates, loopVars, chatVars, readVars, authVars, deleteVars>>
nonReadVars == <<pollVars, taskVars, duplicates, loopVars, chatVars, uploadVars, authVars, deleteVars>>
nonAuthVars == <<pollVars, taskVars, duplicates, loopVars, chatVars, uploadVars, readVars, deleteVars>>

(***************************************************************************)
(* Bounds of the model.                                                    *)
(***************************************************************************)
NumTasks == 2
NumJobs == 1
NumWorkers == 2
MaxDeliveries == 2
MaxSends == 3
MaxChatSends == 2
MaxEvents == 2
MaxMessages == 3
MaxFunctionCalls == 1
MaxBatches == 2
MaxBatchFiles == 2
MaxStatusCalls == 2
MaxLines == 3
MaxAuthCalls == 3
MaxApiCalls == 2
NumConversations == 1

TaskIds == 1..NumTasks
JobIds == 1..NumJobs
CallIds == 1..MaxSends
ConvIds == 1..NumConversations
BatchIds == 1..MaxBatches
RowIds == 1..(MaxBatches * MaxBatchFiles)
RunIds == {1, 2}

(***************************************************************************)
(* Task polling: useTaskStatus.                                            *)
(***************************************************************************)
\* The statuses TaskStatus declares (api-types.ts).
DeclaredStatuses == {"pending", "processing", "completed", "failed"}

\* What a status response can carry at run time: the declared values and a
\* value outside the declared union (the type is not enforced on the wire).
WireStatuses == DeclaredStatuses \cup {"retrying"}

PollInterval == 2000

\* refetchInterval with "processing" forgotten in the keep-polling branch.
refetchIntervalPendingOnly(data) ==
  IF data = "undefined" THEN 0
  ELSE IF data = "completed" \/ data = "failed" THEN 0
  ELSE IF data = "pending" THEN PollInterval
  ELSE 0

\* useTaskStatus.refetchInterval: false is written 0.
refetchInterval(data) ==
  IF data = "undefined" THEN 0
  ELSE IF data = "completed" \/ data = "failed" THEN 0
  ELSE IF data = "pending" \/ data = "processing" THEN PollInterval
  ELSE 0

\* checkTaskStatus with the default branch moved to failed.
checkTaskStatusDefaultFailed(data) ==
  IF data = "undefined" THEN "none"
  ELSE IF data = "completed" THEN "done"
  ELSE IF data = "pending" THEN "pending"
  ELSE IF data = "processing" THEN "processing"
  ELSE "failed"

\* TaskStatusPoller.checkTaskStatus: the status handed to onStatusChange for
\* the fetched data; "none" is no call (taskStatus is undefined).
checkTaskStatus(data) ==
  IF data = "undefined" THEN "none"
  ELSE IF data = "completed" THEN "done"
  ELSE IF data = "failed" THEN "failed"
  ELSE IF data = "pending" THEN "pending"
  ELSE "processing"

PollInit ==
  /\ reported = [t \in TaskIds |-> "none"]
  /\ queryData = [t \in TaskIds |-> "undefined"]
  /\ fetching = [t \in TaskIds |-> FALSE]
  /\ refetchTimer = [t \in TaskIds |-> 0]
  /\ mounted = [t \in TaskIds |-> FALSE]

\* useTaskStatus(taskId, true) is rendered: the query is enabled and its
\* first fetch starts; no data yet, so the interval is off.
MountTaskStatus(t) ==
  /\ ~mounted[t]
  /\ mounted' = [mounted EXCEPT ![t] = TRUE]
  /\ fetching' = [fetching EXCEPT ![t] = TRUE]
  /\ refetchTimer' = [refetchTimer EXCEPT ![t] = refetchInterval(queryData[t])]
  /\ reported' = [reported EXCEPT ![t] =
                    IF checkTaskStatus(queryData[t]) = "none" THEN @
                    ELSE checkTaskStatus(queryData[t])]
  /\ UNCHANGED <<queryData, nonPollVars>>

\* api.getTaskStatus resolves with a status; the interval is recomputed
\* from the new data, and the poller's effect reports the mapped status.
FetchResolved(t, s) ==
  /\ mounted[t] /\ fetching[t]
  /\ queryData' = [queryData EXCEPT ![t] = s]
  /\ fetching' = [fetching EXCEPT ![t] = FALSE]
  /\ refetchTimer' = [refetchTimer EXCEPT ![t] = refetchInterval(s)]
  /\ reported' = [reported EXCEPT ![t] = checkTaskStatus(s)]
  /\ UNCHANGED <<mounted, nonPollVars>>

\* api.getTaskStatus rejects (ApiError, network): the data of the last
\* successful fetch stays, and the interval is recomputed from it.
FetchRejected(t) ==
  /\ mounted[t] /\ fetching[t]
  /\ fetching' = [fetching EXCEPT ![t] = FALSE]
  /\ refetchTimer' = [refetchTimer EXCEPT ![t] = refetchInterval(queryData[t])]
  /\ UNCHANGED <<queryData, mounted, reported, nonPollVars>>

\* The interval elapses: the query is fetched again.
RefetchTick(t) ==
  /\ mounted[t] /\ ~fetching[t]
  /\ refetchTimer[t] > 0
  /\ fetching' = [fetching EXCEPT ![t] = TRUE]
  /\ UNCHANGED <<queryData, refetchTimer, mounted, reported, nonPollVars>>

PollNext ==
  \/ \E t \in TaskIds : MountTaskStatus(t)
  \/ \E t \in TaskIds, s \in WireStatuses : FetchResolved(t, s)
  \/ \E t \in TaskIds : FetchRejected(t)
  \/ \E t \in TaskIds : RefetchTick(t)

(***************************************************************************)
(* Task registry and dispatcher.  The back end is not among the source     *)
(* files; this part follows spec sections 4.1, 4.5 and 9.                  *)
(***************************************************************************)
MaxRequeues == 3

TerminalStatuses == {"completed", "failed"}

\* set_status that applies every update, also to a terminal task.
set_statusUnguarded(cur, new) == new

\* set_status that ignores only a terminal update on a terminal task.
set_statusAcceptsLateProcessing(cur, new) ==
  IF new \in TerminalStatuses
  THEN (IF cur \in TerminalStatuses THEN cur ELSE new)
  ELSE (IF cur = "processing" THEN cur ELSE new)

\* set_status (4.1): a terminal status is final, a repeated or late update
\* is ignored; processing is entered only from pending.
set_status(cur, new) ==
  IF cur \in TerminalStatuses THEN cur
  ELSE IF new = "processing" /\ cur # "pending" THEN cur
  ELSE new

\* The claim that also succeeds on a task that is already processing.
ClaimSucceedsNotExclusive(cur) == cur \in {"pending", "processing"}

\* Claim-on-dequeue (4.5): the compare-and-set pending -> processing.
ClaimSucceeds(cur) == cur = "pending"

\* The retry limit compared with > where >= is meant.
RetryLimitReachedLate(n) == n > MaxRequeues

\* The bounded retry (4.5): after R requeues the task is forced to failed.
RetryLimitReached(n) == n >= MaxRequeues

RECURSIVE SumOver(_, _)
SumOver(f, S) ==
  IF S = {} THEN 0
  ELSE LET x == CHOOSE y \in S : TRUE IN f[x] + SumOver(f, S \ {x})

\* Workers of the pool that hold no task.
IdleWorkers == NumWorkers - SumOver(holders, JobIds)

TaskInit ==
  /\ taskStatus = [t \in JobIds |-> "none"]
  /\ taskDetail = [t \in JobIds |-> ""]
  /\ requeues = [t \in JobIds |-> 0]
  /\ deliveries = [t \in JobIds |-> 0]
  /\ holders = [t \in JobIds |-> 0]
  /\ polled = [t \in JobIds |-> "none"]
  /\ refused = [t \in JobIds |-> FALSE]
  /\ duplicates = [t \in JobIds |-> {}]

\* submit_media: create(media_id) and enqueue.
Submit(t) ==
  /\ taskStatus[t] = "none"
  /\ taskStatus' = [taskStatus EXCEPT ![t] = "pending"]
  /\ deliveries' = [deliveries EXCEPT ![t] = @ + 1]
  /\ UNCHANGED <<taskDetail, requeues, holders, polled, refused, nonTaskVars>>

\* At-least-once delivery: the queue delivers a task id once more.
Redeliver(t) ==
  /\ taskStatus[t] # "none"
  /\ deliveries[t] < MaxDeliveries
  /\ deliveries' = [deliveries EXCEPT ![t] = @ + 1]
  /\ UNCHANGED <<taskStatus, taskDetail, requeues, holders, polled, refused, nonTaskVars>>

\* An idle worker dequeues a delivery and claims the task atomically; a
\* delivery of a task that is not pending is dropped (logged, ignored).
Claim(t) ==
  /\ IdleWorkers > 0
  /\ deliveries[t] > 0
  /\ deliveries' = [deliveries EXCEPT ![t] = @ - 1]
  /\ taskStatus' = [taskStatus EXCEPT ![t] = set_status(@, "processing")]
  /\ holders' = [holders EXCEPT ![t] =
                   IF ClaimSucceeds(taskStatus[t]) THEN @ + 1 ELSE @]
  /\ refused' = [refused EXCEPT ![t] = @ \/ ~ClaimSucceeds(taskStatus[t])]
  /\ UNCHANGED <<taskDetail, requeues, polled, nonTaskVars>>

\* A worker that holds the task: extract, embed and upsert succeeded.
Complete(t) ==
  /\ holders[t] > 0
  /\ taskStatus' = [taskStatus EXCEPT ![t] = set_status(@, "completed")]
  /\ holders' = [holders EXCEPT ![t] = @ - 1]
  /\ UNCHANGED <<taskDetail, requeues, deliveries, polled, refused, nonTaskVars>>

\* A step signalled an error: the task fails with the recorded detail.
Fail(t) ==
  /\ holders[t] > 0
  /\ taskStatus' = [taskStatus EXCEPT ![t] = set_status(@, "failed")]
  /\ taskDetail' = [taskDetail EXCEPT ![t] =
                      IF taskStatus[t] \in TerminalStatuses
                        THEN @ ELSE "extraction failed"]
  /\ holders' = [holders EXCEPT ![t] = @ - 1]
  /\ UNCHANGED <<requeues, deliveries, polled, refused, nonTaskVars>>

\* The worker dies while it holds the task; the task is left in processing.
Crash(t) ==
  /\ holders[t] > 0
  /\ holders' = [holders EXCEPT ![t] = @ - 1]
  /\ UNCHANGED <<taskStatus, taskDetail, requeues, deliveries, polled, refused, nonTaskVars>>

\* A task in processing that no worker holds has passed the liveness timeout.
Stuck(t) ==
  /\ taskStatus[t] = "processing"
  /\ holders[t] = 0

\* Crash recovery: requeue to pending, or force to failed at the limit.
Requeue(t) ==
  /\ Stuck(t)
  /\ IF RetryLimitReached(requeues[t])
       THEN /\ taskStatus' = [taskStatus EXCEPT ![t] = "failed"]
            /\ taskDetail' = [taskDetail EXCEPT ![t] = "retry limit exceeded"]
            /\ UNCHANGED <<requeues, deliveries>>
       ELSE /\ taskStatus' = [taskStatus EXCEPT ![t] = "pending"]
            /\ requeues' = [requeues EXCEPT ![t] = @ + 1]
            /\ deliveries' = [deliveries EXCEPT ![t] = @ + 1]
            /\ UNCHANGED taskDetail
  /\ UNCHANGED <<holders, polled, refused, nonTaskVars>>

\* get_task(task_id) -> status, for a task that exists.
GetTask(t) ==
  /\ taskStatus[t] # "none"
  /\ polled' = [polled EXCEPT ![t] = taskStatus[t]]
  /\ UNCHANGED <<taskStatus, taskDetail, requeues, deliveries, holders, refused, nonTaskVars>>

\* At-least-once delivery of a status update to a terminal task: the update
\* that made it terminal arrives again, or a late processing update arrives.
DuplicateUpdate(t, s) ==
  /\ taskStatus[t] \in TerminalStatuses
  /\ s \in {taskStatus[t], "processing"}
  /\ s \notin duplicates[t]
  /\ duplicates' = [duplicates EXCEPT ![t] = @ \cup {s}]
  /\ taskStatus' = [taskStatus EXCEPT ![t] = set_status(@, s)]
  /\ UNCHANGED <<taskDetail, requeues, deliveries, holders, polled, refused>>
  /\ UNCHANGED <<pollVars, loopVars, chatVars, uploadVars, readVars, authVars, deleteVars>>

\* The registry under at-least-once delivery, without worker crashes.
RegistryNext ==
  \/ \E t \in JobIds : Submit(t)
  \/ \E t \in JobIds : Redeliver(t)
  \/ \E t \in JobIds : Claim(t)
  \/ \E t \in JobIds : Complete(t)
  \/ \E t \in JobIds : Fail(t)
  \/ \E t \in JobIds : GetTask(t)
  \/ \E t \in JobIds, s \in {"processing", "completed", "failed"} :
       DuplicateUpdate(t, s)

TaskNext ==
  \/ \E t \in JobIds : Submit(t)
  \/ \E t \in JobIds : Redeliver(t)
  \/ \E t \in JobIds : Claim(t)
  \/ \E t \in JobIds : Complete(t)
  \/ \E t \in JobIds : Fail(t)
  \/ \E t \in JobIds : Crash(t)
  \/ \E t \in JobIds : Requeue(t)
  \/ \E t \in JobIds : GetTask(t)

(***************************************************************************)
(* Conversation engine: the bounded tool-calling loop.  The back end is    *)
(* not among the source files; this part follows spec sections 4.6, 5, 7.  *)
(***************************************************************************)
MaxToolRounds == 5

\* The allow-list with a function the README does not list.
AllowedFunctionsAndDelete ==
  {"semantic_search", "get_media_details", "count_media", "filter_media_by_date",
   "delete_media"}

\* The functions the provider may call (README, "AI Functions").
AllowedFunctions ==
  {"semantic_search", "get_media_details", "count_media", "filter_media_by_date"}

\* What a provider response can name: the allowed functions and another one.
RequestedFunctions == AllowedFunctions \cup {"delete_media"}

\* The step check compared with > where >= is meant.
StepLimitExceededLate(n) == n > MaxToolRounds

\* 4.6 step 5: the loop is bounded to MaxToolRounds rounds.
StepLimitExceeded(n) == n >= MaxToolRounds

LoopInit ==
  /\ loopPc = "idle"
  /\ loopSteps = 0
  /\ loopCalls = 0
  /\ loopHistory = <<>>
  /\ loopEvents = <<>>
  /\ loopDetail = ""
  /\ loopLast = "none"

\* Steps 1 and 2: append the user message, send the history to the provider.
StartRequest ==
  /\ loopPc = "idle"
  /\ loopPc' = "calling"
  /\ loopHistory' = Append(loopHistory, "user")
  /\ loopCalls' = 1
  /\ UNCHANGED <<loopSteps, loopEvents, loopDetail, loopLast, nonLoopVars>>

\* The loop ends with one error event.
EndWithError(detail) ==
  /\ loopPc' = "error"
  /\ loopDetail' = detail
  /\ loopEvents' = Append(loopEvents, "error")
  /\ UNCHANGED <<loopSteps, loopCalls, loopHistory>>

\* Step 3: the provider answers with a tool call.  The name is validated
\* first; the step bound (step 5) decides whether an allowed call is run.
ProviderToolCall(name) ==
  /\ loopPc = "calling"
  /\ IF name \notin AllowedFunctions
       THEN /\ loopLast' = "unknown_tool"
            /\ EndWithError("ToolNotFound")
       ELSE /\ loopLast' = "tool_call"
            /\ IF StepLimitExceeded(loopSteps)
                 THEN EndWithError("step limit exceeded")
                 ELSE /\ loopHistory' = Append(loopHistory, name)
                      /\ loopEvents' = Append(loopEvents, "tool_invocation")
                      /\ loopSteps' = loopSteps + 1
                      /\ loopCalls' = loopCalls + 1
                      /\ UNCHANGED <<loopPc, loopDetail>>
  /\ UNCHANGED <<nonLoopVars>>

\* Step 4: the provider answers with plain text.
ProviderText ==
  /\ loopPc = "calling"
  /\ loopLast' = "text"
  /\ loopHistory' = Append(loopHistory, "assistant")
  /\ loopEvents' = loopEvents \o <<"text", "done">>
  /\ loopPc' = "done"
  /\ UNCHANGED <<loopSteps, loopCalls, loopDetail, nonLoopVars>>

\* Section 5: the provider call passes its deadline; the retry is counted
\* against the step bound.
ProviderTimeout ==
  /\ loopPc = "calling"
  /\ loopLast' = "timeout"
  /\ IF StepLimitExceeded(loopSteps)
       THEN EndWithError("step limit exceeded")
       ELSE /\ loopSteps' = loopSteps + 1
            /\ loopCalls' = loopCalls + 1
            /\ UNCHANGED <<loopPc, loopHistory, loopEvents, loopDetail>>
  /\ UNCHANGED <<nonLoopVars>>

\* Section 7: the provider fails; the loop ends with an error event.
ProviderError ==
  /\ loopPc = "calling"
  /\ loopLast' = "error"
  /\ EndWithError("ProviderError")
  /\ UNCHANGED <<nonLoopVars>>

LoopNext ==
  \/ StartRequest
  \/ \E name \in RequestedFunctions : ProviderToolCall(name)
  \/ ProviderText
  \/ ProviderTimeout
  \/ ProviderError

(***************************************************************************)
(* Chat store: frontend/src/stores/chatStore.ts.  A message is a record    *)
(* [id, role, content, function_calls]; function_calls is <<>> where the   *)
(* code has it undefined (the code reads it as msg.function_calls || []).  *)
(***************************************************************************)
Message(id, role, content) ==
  [id |-> id, role |-> role, content |-> content, function_calls |-> <<>>]

addMessage(msgs, message) == Append(msgs, message)

\* The mutant of updateLastMessage: the index test of the map is dropped.
updateLastMessageEvery(msgs, content) ==
  [idx \in 1..Len(msgs) |-> [msgs[idx] EXCEPT !.content = content]]

updateLastMessage(msgs, content) ==
  [idx \in 1..Len(msgs) |->
     IF idx = Len(msgs) THEN [msgs[idx] EXCEPT !.content = content]
     ELSE msgs[idx]]

addFunctionCallToLastMessage(msgs, name, args) ==
  [idx \in 1..Len(msgs) |->
     IF idx = Len(msgs)
     THEN [msgs[idx] EXCEPT !.function_calls =
             Append(@, [name |-> name, args |-> args])]
     ELSE msgs[idx]]

(***************************************************************************)
(* The SSE wire.  The response body is a sequence of tokens: the line      *)
(* prefix "data: ", a JSON payload, the "[DONE]" marker, a blank, a        *)
(* newline.  An event is a record with every field of the onEvent type;    *)
(* "" stands for a field that is absent (the code only tests truthiness).  *)
(***************************************************************************)
NL == [k |-> "nl"]
SP == [k |-> "sp"]
DATA == [k |-> "data"]
DONEMARK == [k |-> "donemark"]
Json(ev) == [k |-> "json", ev |-> ev]

Event(type, content, name, args, message) ==
  [type |-> type, content |-> content, name |-> name, args |-> args,
   message |-> message]

TextEvents == {Event("text", c, "", "", "") : c \in {"a", ""}}
FunctionCallEvents == {Event("function_call", "", "semantic_search", "q", "")}
DoneEvents == {Event("done", "", "", "", "")}
ErrorEvents == {Event("error", "", "", "", m) : m \in {"boom", ""}}
TerminalTypes == {"done", "error"}
StreamEvents == TextEvents \cup FunctionCallEvents \cup DoneEvents \cup ErrorEvents
\* The events of SpecGuard: a successful reply.
GuardEvents == {ev \in StreamEvents : ev.type # "error" /\ (ev.type = "text" => ev.content # "")}
\* The events of SpecChat: those with their payload field present.
ChatEvents == {ev \in StreamEvents :
                 ev.type \in {"text", "error"} => ev.content \o ev.message # ""}

Frame(ev) == <<DATA, Json(ev), NL>>
DoneFrame == <<DATA, DONEMARK, NL>>

RECURSIVE SplitLines(_)
SplitLines(text) ==
  IF \A i \in DOMAIN text : text[i] # NL THEN <<text>>
  ELSE LET i == CHOOSE i \in DOMAIN text :
                  text[i] = NL /\ \A j \in 1..(i - 1) : text[j] # NL
       IN <<SubSeq(text, 1, i - 1)>> \o SplitLines(SubSeq(text, i + 1, Len(text)))

RECURSIVE Trim(_)
Trim(line) ==
  IF line = <<>> THEN line
  ELSE IF line[1] = SP THEN Trim(Tail(line))
  ELSE IF line[Len(line)] = SP THEN Trim(SubSeq(line, 1, Len(line) - 1))
  ELSE line

\* The mutant of ParseLine: the [DONE] marker is handed on as a done event.
ParseLineDoneAsEvent(line) ==
  LET trimmedLine == Trim(line) IN
  IF Len(trimmedLine) >= 2 /\ trimmedLine[1] = DATA
  THEN LET data == Trim(Tail(trimmedLine)) IN
       IF data = <<DONEMARK>> THEN <<Event("done", "", "", "", "")>>
       ELSE IF Len(data) = 1 /\ data[1].k = "json" THEN <<data[1].ev>>
       ELSE <<>>
  ELSE <<>>

\* The body of the for loop over one line: the events it hands to onEvent.
\* "data: " keeps its blank only when something follows it on the trimmed line.
ParseLine(line) ==
  LET trimmedLine == Trim(line) IN
  IF Len(trimmedLine) >= 2 /\ trimmedLine[1] = DATA
  THEN LET data == Trim(Tail(trimmedLine)) IN
       IF data = <<DONEMARK>> THEN <<>>
       ELSE IF Len(data) = 1 /\ data[1].k = "json" THEN <<data[1].ev>>
       ELSE <<>>
  ELSE <<>>

RECURSIVE ParseLines(_)
ParseLines(lines) ==
  IF lines = <<>> THEN <<>>
  ELSE ParseLine(Head(lines)) \o ParseLines(Tail(lines))

\* The mutant of ReadStep: the incomplete last line is not kept.
ReadStepDropsRest(buf, chunk) ==
  LET lines == SplitLines(buf \o chunk) IN
  [buffer |-> <<>>,
   events |-> ParseLines(SubSeq(lines, 1, Len(lines) - 1))]

\* The mutant of ReadStep: the buffer keeps the whole text, not the last line.
ReadStepKeepsText(buf, chunk) ==
  LET lines == SplitLines(buf \o chunk) IN
  [buffer |-> buf \o chunk,
   events |-> ParseLines(SubSeq(lines, 1, Len(lines) - 1))]

\* One turn of the read loop after reader.read() returned a chunk.
ReadStep(buf, chunk) ==
  LET lines == SplitLines(buf \o chunk) IN
  [buffer |-> lines[Len(lines)],
   events |-> ParseLines(SubSeq(lines, 1, Len(lines) - 1))]

(***************************************************************************)
(* The read loop of api.sendMessage as a function of the response body.    *)
(* The body is written from up to MaxLines lines; two runs read the same   *)
(* body, each with its own chunking.                                       *)
(***************************************************************************)
\* A payload that JSON.parse rejects, and a line without the data prefix.
BADJSON == [k |-> "badjson"]
COMMENT == [k |-> "comment"]

LineKinds == {"text", "call", "marker", "comment", "bad"}

\* The event a well-formed data line of a kind carries.
EventOf(kind) ==
  IF kind = "text" THEN Event("text", "a", "", "", "")
  ELSE Event("function_call", "", "semantic_search", "q", "")

\* The line of a kind, without its newline; "call" is padded with blanks.
LineOf(kind) ==
  CASE kind = "text" -> <<DATA, Json(EventOf(kind))>>
    [] kind = "call" -> <<SP, DATA, Json(EventOf(kind)), SP>>
    [] kind = "marker" -> <<DATA, DONEMARK>>
    [] kind = "comment" -> <<COMMENT>>
    [] kind = "bad" -> <<DATA, BADJSON>>

\* The kinds that are a well-formed data line with an event.
EventKinds == {"text", "call"}

RECURSIVE BodyOf(_, _)
BodyOf(kinds, terminated) ==
  IF kinds = <<>> THEN <<>>
  ELSE LineOf(Head(kinds)) \o
       (IF Len(kinds) > 1 \/ terminated THEN <<NL>> ELSE <<>>) \o
       BodyOf(Tail(kinds), terminated)

Bodies == UNION {[1..n -> LineKinds] : n \in 1..MaxLines}

\* No response yet: the state of the read loop outside SpecRead.
ReadIdle ==
  /\ rdKinds = <<>>
  /\ rdTerminated = TRUE
  /\ rdText = <<>>
  /\ rdPos = [r \in RunIds |-> 0]
  /\ rdBuffer = [r \in RunIds |-> <<>>]
  /\ rdEvents = [r \in RunIds |-> <<>>]
  /\ rdPc = [r \in RunIds |-> "reading"]

\* The response body is one of the bodies; both runs are about to read it.
ReadInit ==
  /\ rdKinds \in Bodies
  /\ rdTerminated \in BOOLEAN
  /\ rdText = BodyOf(rdKinds, rdTerminated)
  /\ rdPos = [r \in RunIds |-> 0]
  /\ rdBuffer = [r \in RunIds |-> <<>>]
  /\ rdEvents = [r \in RunIds |-> <<>>]
  /\ rdPc = [r \in RunIds |-> "reading"]

\* reader.read() of run r returns the next n tokens of the body.
ReadBody(r, n) ==
  /\ rdPc[r] = "reading"
  /\ rdPos[r] + n <= Len(rdText)
  /\ LET step == ReadStep(rdBuffer[r], SubSeq(rdText, rdPos[r] + 1, rdPos[r] + n)) IN
     /\ rdBuffer' = [rdBuffer EXCEPT ![r] = step.buffer]
     /\ rdEvents' = [rdEvents EXCEPT ![r] = @ \o step.events]
  /\ rdPos' = [rdPos EXCEPT ![r] = @ + n]
  /\ UNCHANGED <<rdKinds, rdTerminated, rdText, rdPc>>
  /\ UNCHANGED nonReadVars

\* reader.read() of run r returns done: the loop breaks, the buffer is left.
ReadDone(r) ==
  /\ rdPc[r] = "reading"
  /\ rdPos[r] = Len(rdText)
  /\ rdPc' = [rdPc EXCEPT ![r] = "returned"]
  /\ UNCHANGED <<rdKinds, rdTerminated, rdText, rdPos, rdBuffer, rdEvents>>
  /\ UNCHANGED nonReadVars

ReadNext ==
  \/ \E r \in RunIds, n \in 1..(MaxLines * 5) : ReadBody(r, n)
  \/ \E r \in RunIds : ReadDone(r)

(***************************************************************************)
(* Auth store (stores/authStore.ts) and the api client's handling of the   *)
(* response status (lib/api.ts).                                           *)
(***************************************************************************)
Null == <<>>
Tokens == {<<"">>, <<"t1">>}

\* The mutant of logout: the token is cleared, the flag is left.
logoutTokenOnly(st) == [st EXCEPT !.token = Null]

setAuth(st, tok) == [st EXCEPT !.token = tok, !.isAuthenticated = TRUE]
logout(st) == [st EXCEPT !.token = Null, !.isAuthenticated = FALSE]

AuthState == [token |-> token, isAuthenticated |-> isAuthenticated]

\* The api methods that go through api.request.
RequestMethods == {"login", "getTaskStatus", "getMessages", "deleteConversation"}
ResponseStatuses == {200, 401, 500}

ApiCall(method, status, thrown) ==
  [method |-> method, status |-> status, thrown |-> thrown]

AuthInit ==
  /\ token = Null
  /\ isAuthenticated = FALSE
  /\ authLog = <<>>
  /\ apiLog = <<>>

\* useLogin onSuccess: setAuth(data.access_token).
SetAuth(tok) ==
  /\ Len(authLog) < MaxAuthCalls
  /\ token' = setAuth(AuthState, tok).token
  /\ isAuthenticated' = setAuth(AuthState, tok).isAuthenticated
  /\ authLog' = Append(authLog, "setAuth")
  /\ UNCHANGED apiLog
  /\ UNCHANGED nonAuthVars

\* DashboardLayout handleLogout: logout().
Logout ==
  /\ Len(authLog) < MaxAuthCalls
  /\ token' = logout(AuthState).token
  /\ isAuthenticated' = logout(AuthState).isAuthenticated
  /\ authLog' = Append(authLog, "logout")
  /\ UNCHANGED apiLog
  /\ UNCHANGED nonAuthVars

\* api.request got its response: 401 logs out and throws ApiError(401), any
\* other non-OK status throws ApiError(status), an OK response is returned.
Request(method, status) ==
  /\ Len(apiLog) < MaxApiCalls
  /\ IF status = 401
       THEN /\ Len(authLog) < MaxAuthCalls
            /\ token' = logout(AuthState).token
            /\ isAuthenticated' = logout(AuthState).isAuthenticated
            /\ authLog' = Append(authLog, "logout")
            /\ apiLog' = Append(apiLog, ApiCall(method, status, 401))
       ELSE /\ apiLog' = Append(apiLog, ApiCall(method, status,
                                               IF status = 200 THEN 0 ELSE status))
            /\ UNCHANGED <<token, isAuthenticated, authLog>>
  /\ UNCHANGED nonAuthVars

\* api.sendMessage got its response (its own fetch): a non-OK status throws
\* ApiError(response.status), an OK response goes on to the read loop.
SendMessageResponse(status) ==
  /\ Len(apiLog) < MaxApiCalls
  /\ apiLog' = Append(apiLog, ApiCall("sendMessage", status,
                                      IF status = 200 THEN 0 ELSE status))
  /\ UNCHANGED <<token, isAuthenticated, authLog>>
  /\ UNCHANGED nonAuthVars

AuthNext ==
  \/ \E tok \in Tokens : SetAuth(tok)
  \/ Logout
  \/ \E method \in RequestMethods, status \in ResponseStatuses : Request(method, status)
  \/ \E status \in ResponseStatuses : SendMessageResponse(status)

(***************************************************************************)
(* Chat page: frontend/src/pages/Chat.tsx.                                 *)
(***************************************************************************)
SorryText == "Sorry, I encountered an error. Please try again."
InputTexts == {"", " ", "hi"}
TrimInput(text) == IF text = " " THEN "" ELSE text

\* Date.now() of the k-th send; the assistant placeholder gets Date.now() + 1.
UserId(k) == 1000 + 2 * k
AssistantId(k) == UserId(k) + 1

\* The guard of sendMessage, negated: the send goes ahead.
SendAllowed(input, conv, streaming) ==
  TrimInput(input) # "" /\ conv # 0 /\ ~streaming

\* The onEvent callback, on the state it reads and writes.
onEvent(st, event) ==
  LET st1 == [st EXCEPT !.delivered = Append(@, event)] IN
  CASE event.type = "text" ->
         IF event.content # ""
         THEN [st1 EXCEPT !.fullContent = @ \o event.content,
                          !.messages = updateLastMessage(@,
                                         st.fullContent \o event.content)]
         ELSE st1
    [] event.type = "function_call" ->
         IF event.name # "" /\ event.args # ""
         THEN [st1 EXCEPT !.messages =
                 addFunctionCallToLastMessage(@, event.name, event.args)]
         ELSE st1
    [] event.type = "done" -> [st1 EXCEPT !.isStreaming = FALSE]
    [] event.type = "error" ->
         [st1 EXCEPT !.messages = updateLastMessage(@,
                        IF event.message # "" THEN event.message ELSE SorryText),
                     !.isStreaming = FALSE]
    [] OTHER -> st1

RECURSIVE onEvents(_, _)
onEvents(st, events) ==
  IF events = <<>> THEN st
  ELSE onEvents(onEvent(st, Head(events)), Tail(events))

(***************************************************************************)
(* The back end's durable history (spec-modelled): conversation 1 starts   *)
(* with one exchange, conversation 2 is new.  The row id of the i-th       *)
(* message of conversation c is 100 * c + i.                               *)
(***************************************************************************)
RowId(c, i) == 100 * c + i

InitialHistory(c) ==
  IF c = 1 THEN <<Message(RowId(1, 1), "user", "q0"),
                  Message(RowId(1, 2), "assistant", "r0")>>
  ELSE <<>>

AppendRow(hist, c, role, content) ==
  Append(hist, Message(RowId(c, Len(hist) + 1), role, content))

ChatInit ==
  /\ currentConversation = 0
  /\ messages = <<>>
  /\ isStreaming = FALSE
  /\ nCalls = 0
  /\ callPc = [k \in CallIds |-> "unused"]
  /\ callConv = [k \in CallIds |-> 0]
  /\ fullContent = [k \in CallIds |-> ""]
  /\ buffer = [k \in CallIds |-> <<>>]
  /\ delivered = [k \in CallIds |-> <<>>]
  /\ msgLoaded = [c \in ConvIds |-> FALSE]
  /\ msgData = [c \in ConvIds |-> <<>>]
  /\ msgFetching = [c \in ConvIds |-> FALSE]
  /\ wire = [k \in CallIds |-> <<>>]
  /\ srvState = [k \in CallIds |-> "none"]
  /\ srvCount = [k \in CallIds |-> 0]
  /\ srvText = [k \in CallIds |-> ""]
  /\ serverHist = [c \in ConvIds |-> InitialHistory(c)]

\* DashboardLayout.handleSelectConversation: the store resets the list; when
\* the id changed the page observes the messages query of c, shows its cached
\* data through the setMessages effect and refetches it.
SelectConversation(c) ==
  /\ currentConversation' = c
  /\ messages' = IF c # currentConversation /\ msgLoaded[c] THEN msgData[c]
                 ELSE <<>>
  /\ msgFetching' = [msgFetching EXCEPT ![c] = @ \/ c # currentConversation]
  /\ UNCHANGED <<isStreaming, callVars, msgLoaded, msgData, serverVars>>
  /\ UNCHANGED nonChatVars

\* A getMessages request resolves with the history as it is now.  The
\* setMessages effect runs when the observed query's data changed.
MessagesLoaded(c) ==
  /\ msgFetching[c]
  /\ msgFetching' = [msgFetching EXCEPT ![c] = FALSE]
  /\ msgLoaded' = [msgLoaded EXCEPT ![c] = TRUE]
  /\ msgData' = [msgData EXCEPT ![c] = serverHist[c]]
  /\ messages' = IF c = currentConversation
                    /\ (~msgLoaded[c] \/ msgData[c] # serverHist[c])
                 THEN serverHist[c] ELSE messages
  /\ UNCHANGED <<currentConversation, isStreaming, callVars, serverVars>>
  /\ UNCHANGED nonChatVars

\* Chat.sendMessage up to the fetch of api.sendMessage; limit bounds the
\* number of sends of a behaviour.
SendMessage(input, limit) ==
  /\ nCalls < limit
  /\ SendAllowed(input, currentConversation, isStreaming)
  /\ LET k == nCalls + 1 IN
     /\ nCalls' = k
     /\ messages' = addMessage(addMessage(messages,
                                 Message(UserId(k), "user", input)),
                               Message(AssistantId(k), "assistant", ""))
     /\ isStreaming' = TRUE
     /\ callPc' = [callPc EXCEPT ![k] = "fetching"]
     /\ callConv' = [callConv EXCEPT ![k] = currentConversation]
  /\ UNCHANGED <<currentConversation, fullContent, buffer, delivered,
                 queryVars, serverVars>>
  /\ UNCHANGED nonChatVars

\* The catch block of Chat.sendMessage, after mutateAsync rejected.  The
\* connection is gone: what was sent and not read is lost, and the engine
\* stops answering the request (spec section 4.6, caller disconnect).
Catch(k) ==
  /\ messages' = updateLastMessage(messages, SorryText)
  /\ isStreaming' = FALSE
  /\ callPc' = [callPc EXCEPT ![k] = "thrown"]
  /\ wire' = [wire EXCEPT ![k] = <<>>]
  /\ srvState' = [srvState EXCEPT ![k] = IF @ = "open" THEN "cut" ELSE @]

\* The request is accepted (spec-modelled): no other request of the
\* conversation is being answered; the user message is appended and the
\* response is a 200 with a body.
ServerAccept(k) ==
  /\ callPc[k] = "fetching"
  /\ \A j \in CallIds : srvState[j] = "open" => callConv[j] # callConv[k]
  /\ callPc' = [callPc EXCEPT ![k] = "reading"]
  /\ srvState' = [srvState EXCEPT ![k] = "open"]
  /\ serverHist' = [serverHist EXCEPT ![callConv[k]] =
                      AppendRow(@, callConv[k], "user", "hi")]
  /\ UNCHANGED <<storeVars, nCalls, callConv, fullContent, buffer, delivered,
                 queryVars, wire, srvCount, srvText>>
  /\ UNCHANGED nonChatVars

\* fetch rejects or the response is not ok (401, 404, 409 Conflict, 5xx):
\* api.sendMessage throws before any event.
RequestFails(k) ==
  /\ callPc[k] = "fetching"
  /\ Catch(k)
  /\ UNCHANGED <<currentConversation, nCalls, callConv, fullContent, buffer,
                 delivered, queryVars, srvCount, srvText, serverHist>>
  /\ UNCHANGED nonChatVars

\* The engine emits one event (spec-modelled): any number of text and
\* function_call events, then one done or error; done appends the reply.
ServerEmit(k, ev) ==
  /\ srvState[k] = "open"
  /\ ev.type \in TerminalTypes \/ srvCount[k] < MaxEvents - 1
  /\ srvCount' = [srvCount EXCEPT ![k] = @ + 1]
  /\ srvText' = [srvText EXCEPT ![k] = @ \o ev.content]
  /\ srvState' = [srvState EXCEPT ![k] =
                    IF ev.type \in TerminalTypes THEN "ended" ELSE "open"]
  /\ wire' = [wire EXCEPT ![k] = @ \o Frame(ev)]
  /\ serverHist' = [serverHist EXCEPT ![callConv[k]] =
                      IF ev.type = "done"
                      THEN AppendRow(@, callConv[k], "assistant", srvText'[k])
                      ELSE @]
  /\ UNCHANGED <<storeVars, callVars, queryVars>>
  /\ UNCHANGED nonChatVars

\* The response body ends after the terminal event, with or without the
\* "[DONE]" marker line.
ServerClose(k, marker) ==
  /\ srvState[k] = "ended"
  /\ srvState' = [srvState EXCEPT ![k] = "closed"]
  /\ wire' = [wire EXCEPT ![k] =
                IF callPc[k] = "reading" /\ marker THEN @ \o DoneFrame ELSE @]
  /\ UNCHANGED <<storeVars, callVars, queryVars, srvCount, srvText, serverHist>>
  /\ UNCHANGED nonChatVars

\* The body ends without a terminal event (the engine or a proxy went away).
StreamCut(k) ==
  /\ srvState[k] = "open"
  /\ srvState' = [srvState EXCEPT ![k] = "cut"]
  /\ UNCHANGED <<storeVars, callVars, queryVars, wire, srvCount, srvText,
                 serverHist>>
  /\ UNCHANGED nonChatVars

\* reader.read() returns the next n tokens of the body; the loop splits,
\* keeps the last line and hands the events of the complete lines to onEvent.
ReadChunk(k, n) ==
  /\ callPc[k] = "reading"
  /\ n \in 1..Len(wire[k])
  /\ LET r == ReadStep(buffer[k], SubSeq(wire[k], 1, n))
         st == onEvents([messages |-> messages, isStreaming |-> isStreaming,
                         fullContent |-> fullContent[k],
                         delivered |-> delivered[k]], r.events)
     IN /\ buffer' = [buffer EXCEPT ![k] = r.buffer]
        /\ messages' = st.messages
        /\ isStreaming' = st.isStreaming
        /\ fullContent' = [fullContent EXCEPT ![k] = st.fullContent]
        /\ delivered' = [delivered EXCEPT ![k] = st.delivered]
  /\ wire' = [wire EXCEPT ![k] = SubSeq(@, n + 1, Len(@))]
  /\ UNCHANGED <<currentConversation, nCalls, callPc, callConv, queryVars,
                 srvState, srvCount, srvText, serverHist>>
  /\ UNCHANGED nonChatVars

\* reader.read() returns done: api.sendMessage resolves and the mutation's
\* onSuccess invalidates the messages query, which refetches when observed.
ReadEof(k) ==
  /\ callPc[k] = "reading"
  /\ wire[k] = <<>>
  /\ srvState[k] \in {"closed", "cut"}
  /\ callPc' = [callPc EXCEPT ![k] = "returned"]
  /\ msgFetching' = [msgFetching EXCEPT ![callConv[k]] =
                       @ \/ callConv[k] = currentConversation]
  /\ UNCHANGED <<storeVars, nCalls, callConv, fullContent, buffer, delivered,
                 msgLoaded, msgData, serverVars>>
  /\ UNCHANGED nonChatVars

\* reader.read() rejects (the connection broke): api.sendMessage throws.
ReadRejects(k) ==
  /\ callPc[k] = "reading"
  /\ Catch(k)
  /\ UNCHANGED <<currentConversation, nCalls, callConv, fullContent, buffer,
                 delivered, queryVars, srvCount, srvText, serverHist>>
  /\ UNCHANGED nonChatVars

\* In SpecChat a chunk is what the back end has sent since the last read, so
\* it ends with an event's newline; SpecStream reads chunks of any length.
ChatNext ==
  \/ \E c \in ConvIds : SelectConversation(c)
  \/ \E c \in ConvIds : MessagesLoaded(c)
  \/ \E input \in InputTexts : SendMessage(input, MaxChatSends)
  \/ \E k \in CallIds : ServerAccept(k)
  \/ \E k \in CallIds : RequestFails(k)
  \/ \E k \in CallIds, ev \in ChatEvents : ServerEmit(k, ev)
  \/ \E k \in CallIds : ServerClose(k, FALSE)
  \/ \E k \in CallIds : StreamCut(k)
  \/ \E k \in CallIds : ReadChunk(k, Len(wire[k]))
  \/ \E k \in CallIds : ReadEof(k)
  \/ \E k \in CallIds : ReadRejects(k)

\* api.sendMessage on its own: one call, read in chunks of any length.
StreamNext ==
  \/ SelectConversation(1)
  \/ SendMessage("hi", 1)
  \/ ServerAccept(1)
  \/ RequestFails(1)
  \/ \E ev \in StreamEvents : ServerEmit(1, ev)
  \/ \E marker \in BOOLEAN : ServerClose(1, marker)
  \/ StreamCut(1)
  \/ \E n \in 1..Len(wire[1]) : ReadChunk(1, n)
  \/ ReadEof(1)
  \/ ReadRejects(1)

\* The send guard across several sends: replies of text and done.
GuardNext ==
  \/ \E c \in ConvIds : SelectConversation(c)
  \/ \E input \in InputTexts : SendMessage(input, MaxSends)
  \/ \E k \in CallIds : ServerAccept(k)
  \/ \E k \in CallIds : RequestFails(k)
  \/ \E k \in CallIds, ev \in GuardEvents : ServerEmit(k, ev)
  \/ \E k \in CallIds : ServerClose(k, FALSE)
  \/ \E k \in CallIds : ReadChunk(k, Len(wire[k]))
  \/ \E k \in CallIds : ReadEof(k)
  \/ \E k \in CallIds : ReadRejects(k)

(***************************************************************************)
(* DashboardLayout: selecting and deleting a conversation.  The back end's *)
(* delete_conversation is spec-modelled as success or failure.             *)
(***************************************************************************)
nonDeleteVars == <<pollVars, taskVars, duplicates, loopVars, uploadVars, readVars, authVars>>

DeleteInit ==
  /\ conversationToDelete = 0
  /\ deleteDialogOpen = FALSE
  /\ deletePc = "idle"
  /\ deleteTarget = 0
  /\ deleteCurrent = 0
  /\ deletedConvs = {}
  /\ convList = ConvIds
  /\ convListFetching = FALSE

\* A click on a conversation of the sidebar (not reachable under the dialog).
HandleSelectConversation(c) ==
  /\ c \in convList
  /\ ~deleteDialogOpen
  /\ SelectConversation(c)
  /\ UNCHANGED deleteVars

\* The trash button of a conversation; disabled while a deletion is pending.
HandleDeleteConversation(c) ==
  /\ c \in convList
  /\ ~deleteDialogOpen
  /\ deletePc = "idle"
  /\ conversationToDelete' = c
  /\ deleteDialogOpen' = TRUE
  /\ UNCHANGED <<deletePc, deleteTarget, deleteCurrent, deletedConvs, convList,
                 convListFetching>>
  /\ UNCHANGED <<chatVars, nonDeleteVars>>

\* The Cancel button; disabled while a deletion is pending.
CancelDeleteConversation ==
  /\ deleteDialogOpen
  /\ deletePc = "idle"
  /\ deleteDialogOpen' = FALSE
  /\ conversationToDelete' = 0
  /\ UNCHANGED <<deletePc, deleteTarget, deleteCurrent, deletedConvs, convList,
                 convListFetching>>
  /\ UNCHANGED <<chatVars, nonDeleteVars>>

\* The dialog is dismissed (Escape, click outside): onOpenChange(false).
DismissDialog ==
  /\ deleteDialogOpen
  /\ deleteDialogOpen' = FALSE
  /\ UNCHANGED <<conversationToDelete, deletePc, deleteTarget, deleteCurrent,
                 deletedConvs, convList, convListFetching>>
  /\ UNCHANGED <<chatVars, nonDeleteVars>>

\* confirmDeleteConversation up to the await: the call keeps the values of
\* conversationToDelete and currentConversation of the render it was made in.
ConfirmDelete ==
  /\ deleteDialogOpen
  /\ deletePc = "idle"
  /\ conversationToDelete # 0
  /\ deletePc' = "pending"
  /\ deleteTarget' = conversationToDelete
  /\ deleteCurrent' = currentConversation
  /\ UNCHANGED <<conversationToDelete, deleteDialogOpen, deletedConvs, convList,
                 convListFetching>>
  /\ UNCHANGED <<chatVars, nonDeleteVars>>

\* currentConversation?.id === conversationToDelete.id, on the call's values.
ResetNeeded(current, target) == current = target

\* mutateAsync resolved: onSuccess invalidates the conversations query, the
\* store is reset when the test holds, then the finally block runs.
DeleteSucceeds ==
  /\ deletePc = "pending"
  /\ deletePc' = "idle"
  /\ deletedConvs' = deletedConvs \cup {deleteTarget}
  /\ convListFetching' = TRUE
  /\ IF ResetNeeded(deleteCurrent, deleteTarget)
       THEN currentConversation' = 0 /\ messages' = <<>>
       ELSE UNCHANGED <<currentConversation, messages>>
  /\ deleteDialogOpen' = FALSE
  /\ conversationToDelete' = 0
  /\ UNCHANGED <<deleteTarget, deleteCurrent, convList>>
  /\ UNCHANGED <<isStreaming, callVars, queryVars, serverVars, nonDeleteVars>>

\* mutateAsync rejected: only the finally block runs.
DeleteFails ==
  /\ deletePc = "pending"
  /\ deletePc' = "idle"
  /\ deleteDialogOpen' = FALSE
  /\ conversationToDelete' = 0
  /\ UNCHANGED <<deleteTarget, deleteCurrent, deletedConvs, convList,
                 convListFetching>>
  /\ UNCHANGED <<chatVars, nonDeleteVars>>

\* The Chat page under the layout: the messages query of c resolves.
ChatMessagesLoaded(c) ==
  /\ MessagesLoaded(c)
  /\ UNCHANGED deleteVars

\* The conversations query resolves with the list as the back end has it.
ConversationsLoaded ==
  /\ convListFetching
  /\ convListFetching' = FALSE
  /\ convList' = ConvIds \ deletedConvs
  /\ UNCHANGED <<conversationToDelete, deleteDialogOpen, deletePc, deleteTarget,
                 deleteCurrent, deletedConvs>>
  /\ UNCHANGED <<chatVars, nonDeleteVars>>

DeleteNext ==
  \/ \E c \in ConvIds : HandleSelectConversation(c)
  \/ \E c \in ConvIds : HandleDeleteConversation(c)
  \/ CancelDeleteConversation
  \/ DismissDialog
  \/ ConfirmDelete
  \/ DeleteSucceeds
  \/ DeleteFails
  \/ ConversationsLoaded
  \/ \E c \in ConvIds : ChatMessagesLoaded(c)

(***************************************************************************)
(* Upload page: frontend/src/pages/Upload.tsx.  A row of the list is a     *)
(* record [file, status, progress, taskId]; taskId 0 is undefined.  The    *)
(* list index of the code is 0-based, the index of the sequence 1-based.   *)
(***************************************************************************)
\* The i-th file (0-based) of the b-th handleFiles call.
FileOf(b, i) == 10 * b + i

\* The task id the back end returns for that file: response.media[i].task_id.
TaskOf(b, i) == 100 + 10 * b + i

UploadInit ==
  /\ uploadingFiles = <<>>
  /\ nBatches = 0
  /\ batchPc = [b \in BatchIds |-> "unused"]
  /\ batchSize = [b \in BatchIds |-> 0]
  /\ batchStart = [b \in BatchIds |-> 0]
  /\ ticked = {}
  /\ rowData = [i \in RowIds |-> "undefined"]
  /\ effectPending = [i \in RowIds |-> FALSE]
  /\ statusCalls = 0

\* The rows that have a TaskStatusPoller mounted: uf.taskId is set.
Mounted(list) == {i \in DOMAIN list : list[i].taskId # 0}

\* Upload has rendered the list: every mounted poller got a new
\* onStatusChange function, so its checkTaskStatus changed and its effect
\* is due.
Rendered(list) == [i \in RowIds |-> i \in Mounted(list)]

\* The query data of the pollers after the list changed from old to new: a
\* poller whose taskId changed observes another query, without data yet.
QueryDataAfter(old, new) ==
  [i \in RowIds |->
     IF i \in DOMAIN old /\ i \in DOMAIN new /\ new[i].taskId = old[i].taskId
     THEN rowData[i] ELSE "undefined"]

\* What every setUploadingFiles call brings with it.
Rerender ==
  /\ effectPending' = Rendered(uploadingFiles')
  /\ rowData' = QueryDataAfter(uploadingFiles, uploadingFiles')
  /\ UNCHANGED statusCalls

\* The statuses a poll of an upload's task returns here.
PolledStatuses == {"processing", "completed", "retrying"}

\* idx >= prev.length - newFiles.length, for the 1-based index idx.
InLastRows(idx, prev, n) == idx - 1 >= Len(prev) - n

\* handleFiles up to the await: n pending rows are appended, upload starts.
HandleFiles(n) ==
  /\ nBatches < MaxBatches
  /\ LET b == nBatches + 1 IN
     /\ nBatches' = b
     /\ uploadingFiles' = uploadingFiles \o
          [i \in 1..n |-> [file |-> FileOf(b, i - 1), status |-> "pending",
                           progress |-> 0, taskId |-> 0]]
     /\ batchPc' = [batchPc EXCEPT ![b] = "uploading"]
     /\ batchSize' = [batchSize EXCEPT ![b] = n]
     /\ batchStart' = [batchStart EXCEPT ![b] = Len(uploadingFiles) + 1]
  /\ UNCHANGED ticked
  /\ Rerender
  /\ UNCHANGED nonUploadVars

\* The progress interval of file index of call b fires (once, the timeout
\* clears it): the row at prev.length - newFiles.length + index advances.
ProgressTick(b, index) ==
  /\ batchPc[b] # "unused"
  /\ index \in 0..(batchSize[b] - 1)
  /\ <<b, index>> \notin ticked
  /\ ticked' = ticked \cup {<<b, index>>}
  /\ LET fileIndex == Len(uploadingFiles) - batchSize[b] + index + 1 IN
     uploadingFiles' =
       [idx \in 1..Len(uploadingFiles) |->
          IF idx = fileIndex /\ uploadingFiles[idx].progress < 90
          THEN [uploadingFiles[idx] EXCEPT !.status = "uploading",
                                           !.progress = @ + 10]
          ELSE uploadingFiles[idx]]
  /\ UNCHANGED <<nBatches, batchPc, batchSize, batchStart>>
  /\ Rerender
  /\ UNCHANGED nonUploadVars

\* mutateAsync resolved with one media entry per file, in file order.
UploadResolved(b) ==
  /\ batchPc[b] = "uploading"
  /\ batchPc' = [batchPc EXCEPT ![b] = "succeeded"]
  /\ uploadingFiles' =
       [idx \in 1..Len(uploadingFiles) |->
          IF InLastRows(idx, uploadingFiles, batchSize[b])
          THEN [uploadingFiles[idx] EXCEPT
                  !.status = "processing", !.progress = 100,
                  !.taskId = TaskOf(b, (idx - 1) -
                                       (Len(uploadingFiles) - batchSize[b]))]
          ELSE uploadingFiles[idx]]
  /\ UNCHANGED <<nBatches, batchSize, batchStart, ticked>>
  /\ Rerender
  /\ UNCHANGED nonUploadVars

\* mutateAsync rejected: the catch block.
UploadRejected(b) ==
  /\ batchPc[b] = "uploading"
  /\ batchPc' = [batchPc EXCEPT ![b] = "rejected"]
  /\ uploadingFiles' =
       [idx \in 1..Len(uploadingFiles) |->
          IF InLastRows(idx, uploadingFiles, batchSize[b])
          THEN [uploadingFiles[idx] EXCEPT !.status = "failed", !.progress = 100]
          ELSE uploadingFiles[idx]]
  /\ UNCHANGED <<nBatches, batchSize, batchStart, ticked>>
  /\ Rerender
  /\ UNCHANGED nonUploadVars

\* The task status query of row idx's poller resolves with other data than
\* it holds; it is fetched at mount and then while refetchInterval says so.
\* The poller renders again with the new taskStatus, so its effect is due.
PollResolved(idx, s) ==
  /\ idx \in Mounted(uploadingFiles)
  /\ rowData[idx] = "undefined" \/ refetchInterval(rowData[idx]) > 0
  /\ rowData[idx] # s
  /\ rowData' = [rowData EXCEPT ![idx] = s]
  /\ effectPending' = [effectPending EXCEPT ![idx] = TRUE]
  /\ UNCHANGED <<uploadingFiles, nBatches, batchPc, batchSize, batchStart, ticked,
                 statusCalls>>
  /\ UNCHANGED nonUploadVars

\* The effect of row idx's poller runs checkTaskStatus: without data it
\* does nothing; with data it calls onStatusChange, whose setUploadingFiles
\* maps the list to a new array, so Upload renders again.
PollerEffect(idx) ==
  /\ idx \in Mounted(uploadingFiles)
  /\ effectPending[idx]
  /\ IF checkTaskStatus(rowData[idx]) = "none"
       THEN /\ effectPending' = [effectPending EXCEPT ![idx] = FALSE]
            /\ UNCHANGED <<uploadingFiles, rowData, statusCalls>>
       ELSE /\ statusCalls < MaxStatusCalls
            /\ statusCalls' = statusCalls + 1
            /\ uploadingFiles' = [uploadingFiles EXCEPT
                                    ![idx].status = checkTaskStatus(rowData[idx])]
            /\ effectPending' = Rendered(uploadingFiles')
            /\ UNCHANGED rowData
  /\ UNCHANGED <<nBatches, batchPc, batchSize, batchStart, ticked>>
  /\ UNCHANGED nonUploadVars

UploadNext ==
  \/ \E n \in 1..MaxBatchFiles : HandleFiles(n)
  \/ \E b \in BatchIds, index \in 0..(MaxBatchFiles - 1) : ProgressTick(b, index)
  \/ \E b \in BatchIds : UploadResolved(b)
  \/ \E b \in BatchIds : UploadRejected(b)
  \/ \E idx \in RowIds, s \in PolledStatuses : PollResolved(idx, s)
  \/ \E idx \in RowIds : PollerEffect(idx)

\* The three store operations of chat history on their own, with any
\* arguments: the list starts empty, as the store creates it.
StoreFrame ==
  /\ UNCHANGED <<currentConversation, isStreaming, callVars, queryVars,
                 serverVars>>
  /\ UNCHANGED nonChatVars

StoreAddMessage(role, content) ==
  /\ Len(messages) < MaxMessages
  /\ messages' = addMessage(messages, Message(Len(messages) + 1, role, content))
  /\ StoreFrame

StoreUpdateLastMessage(content) ==
  /\ messages' = updateLastMessage(messages, content)
  /\ StoreFrame

StoreAddFunctionCall(name, args) ==
  /\ \A i \in DOMAIN messages : Len(messages[i].function_calls) < MaxFunctionCalls
  /\ messages' = addFunctionCallToLastMessage(messages, name, args)
  /\ StoreFrame

StoreNext ==
  \/ \E role \in {"user", "assistant"}, content \in {"", "a"} :
       StoreAddMessage(role, content)
  \/ \E content \in {"a", "b"} : StoreUpdateLastMessage(content)
  \/ StoreAddFunctionCall("semantic_search", "q")

Init == PollInit /\ TaskInit /\ LoopInit /\ ChatInit /\ UploadInit /\ ReadIdle /\ AuthInit /\ DeleteInit

\* The initial states of SpecRead: the response body is drawn.
InitRead == PollInit /\ TaskInit /\ LoopInit /\ ChatInit /\ UploadInit /\ ReadInit /\ AuthInit /\ DeleteInit

SpecStream == Init /\ [][StreamNext]_vars

SpecGuard == Init /\ [][GuardNext]_vars

SpecStore == Init /\ [][StoreNext]_vars

SpecRegistry == Init /\ [][RegistryNext]_vars

SpecUpload == Init /\ [][UploadNext]_vars

SpecRead == InitRead /\ [][ReadNext]_vars

SpecAuth == Init /\ [][AuthNext]_vars

SpecDelete == Init /\ [][DeleteNext]_vars

SpecChat == Init /\ [][ChatNext]_vars

SpecLoop == Init /\ [][LoopNext]_vars

SpecTask == Init /\ [][TaskNext]_vars

\* The dispatcher's scheduling: a worker that holds a task finishes it or
\* dies, an idle worker takes a waiting delivery, the timeout fires.
TaskFairness ==
  /\ \A t \in JobIds : WF_vars(Claim(t))
  /\ \A t \in JobIds : WF_vars(Complete(t) \/ Fail(t) \/ Crash(t))
  /\ \A t \in JobIds : WF_vars(Requeue(t))

\* The dispatcher alone, without get_task callers.
DispatchNext ==
  \/ \E t \in JobIds : Submit(t)
  \/ \E t \in JobIds : Redeliver(t)
  \/ \E t \in JobIds : Claim(t)
  \/ \E t \in JobIds : Complete(t)
  \/ \E t \in JobIds : Fail(t)
  \/ \E t \in JobIds : Crash(t)
  \/ \E t \in JobIds : Requeue(t)

SpecTaskFair == Init /\ [][DispatchNext]_vars /\ TaskFairness

SpecPoll == Init /\ [][PollNext]_vars

\* A task id is being polled: a request is in flight or the interval runs.
Polling(t) == fetching[t] \/ refetchTimer[t] > 0

(***************************************************************************)
(* C1 (as amended).  While the last observed status of a mounted task is   *)
(* pending or processing, a refetch is scheduled every 2000 ms; polling is *)
(* off only when the last observed status is completed, failed or a value  *)
(* outside the declared four, or when no status was ever obtained.         *)
(***************************************************************************)
C1_PollsWhileNotTerminal ==
  \A t \in TaskIds :
    mounted[t] =>
      /\ (queryData[t] \in {"pending", "processing"} =>
            refetchTimer[t] = PollInterval)
      /\ (~Polling(t) =>
            queryData[t] \in {"completed", "failed", "retrying", "undefined"})

\* A mounted task whose last observed status is processing, between fetches.
C1_Witness ==
  \E t \in TaskIds :
    mounted[t] /\ ~fetching[t] /\ queryData[t] = "processing"
      /\ refetchTimer[t] = PollInterval

\* C1 as stated: polling stops only after completed or failed was observed.
C1_StopsOnlyAfterTerminal ==
  \A t \in TaskIds :
    (mounted[t] /\ ~Polling(t)) => queryData[t] \in {"completed", "failed"}

(***************************************************************************)
(* C4 (as amended).  Once get_task has returned completed or failed for a  *)
(* task id, every later get_task of it returns the same status.  (Before   *)
(* that the returned status can go back from processing to pending, when   *)
(* the task is requeued.)                                                  *)
(***************************************************************************)
C4_TerminalIsFinal ==
  [][\A t \in JobIds :
       polled[t] \in TerminalStatuses => polled'[t] = polled[t]]_vars

\* A terminal status was returned for a task that had been requeued and had
\* a late duplicate delivery refused.
C4_Witness ==
  \E t \in JobIds :
    polled[t] \in TerminalStatuses /\ refused[t] /\ requeues[t] > 0

StatusRank(s) ==
  CASE s = "none" -> 0
    [] s = "pending" -> 1
    [] s = "processing" -> 2
    [] OTHER -> 3

\* C4 as stated: successive polls follow pending -> processing -> terminal.
C4_NeverRegresses ==
  [][\A t \in JobIds :
       /\ StatusRank(polled'[t]) >= StatusRank(polled[t])
       /\ (polled[t] \in TerminalStatuses => polled'[t] = polled[t])]_vars

(***************************************************************************)
(* C5.  Whatever the interleaving of dequeue and claim steps, duplicate    *)
(* deliveries included, no two workers hold the same task at a time, and a *)
(* task that a worker holds is in processing.                              *)
(***************************************************************************)
C5_ExclusiveClaim ==
  \A t \in JobIds :
    /\ holders[t] <= 1
    /\ holders[t] > 0 => taskStatus[t] = "processing"

\* A worker holds a task whose duplicate delivery was dequeued and refused
\* during its first run.
C5_Witness ==
  \E t \in JobIds :
    holders[t] = 1 /\ refused[t] /\ requeues[t] = 0

(***************************************************************************)
(* C6.  A task is requeued at most MaxRequeues times; a task stuck in      *)
(* processing after that is forced to failed with the retry-limit detail;  *)
(* and every task that was created eventually is completed or failed.      *)
(***************************************************************************)
C6_BoundedRetry ==
  /\ [](\A t \in JobIds : requeues[t] <= MaxRequeues)
  /\ [](\A t \in JobIds :
          taskDetail[t] = "retry limit exceeded" =>
            taskStatus[t] = "failed" /\ requeues[t] = MaxRequeues)
  /\ \A t \in JobIds :
       (Stuck(t) /\ requeues[t] = MaxRequeues) ~>
         (taskStatus[t] = "failed" /\ taskDetail[t] = "retry limit exceeded")
  /\ \A t \in JobIds :
       (taskStatus[t] \in {"pending", "processing"}) ~>
         (taskStatus[t] \in TerminalStatuses)

\* A task was forced to failed at the retry limit.
C6_Witness ==
  \E t \in JobIds :
    /\ taskStatus[t] = "failed"
    /\ taskDetail[t] = "retry limit exceeded"
    /\ requeues[t] = MaxRequeues

\* The tool-call rounds performed: the tool results in the history.
ToolRounds == Cardinality({i \in DOMAIN loopHistory : loopHistory[i] \in AllowedFunctions})

(***************************************************************************)
(* C7.  The loop never performs more than MaxToolRounds tool-call rounds   *)
(* and never makes more than MaxToolRounds + 1 provider calls; when the    *)
(* provider has answered every call with an allowed tool call, the loop    *)
(* ends at call MaxToolRounds + 1 with the "step limit exceeded" error.    *)
(***************************************************************************)
C7_StepBound ==
  /\ ToolRounds <= MaxToolRounds
  /\ loopSteps <= MaxToolRounds
  /\ loopCalls <= MaxToolRounds + 1
  /\ (ToolRounds = MaxToolRounds /\ loopLast = "tool_call" /\ loopPc # "calling") =>
       /\ loopPc = "error"
       /\ loopDetail = "step limit exceeded"
       /\ loopCalls = MaxToolRounds + 1
       /\ loopEvents[Len(loopEvents)] = "error"
  /\ loopDetail = "step limit exceeded" => loopSteps = MaxToolRounds

\* The provider answered every call with a tool call and the loop ended.
C7_Witness ==
  /\ ToolRounds = MaxToolRounds
  /\ loopLast = "tool_call"
  /\ loopPc = "error"
  /\ loopDetail = "step limit exceeded"

(***************************************************************************)
(* Chat stream, send guard, error handling, chat history.                  *)
(***************************************************************************)
\* How many done or error events the call's onEvent has received.
Terminals(k) ==
  Cardinality({i \in DOMAIN delivered[k] : delivered[k][i].type \in TerminalTypes})

InFlight(k) == callPc[k] = "reading" /\ Terminals(k) = 0

\* C3 as stated: two send_message requests on the same conversation are
\* never in flight at the same time.
C3_OneInFlight ==
  \A j \in CallIds, k \in CallIds :
    (j # k /\ InFlight(j) /\ InFlight(k)) => callConv[j] # callConv[k]

ErrorsDelivered(log) ==
  Cardinality({i \in DOMAIN log : log[i].type = "error"})

\* The step handles an error of call k: an error event reaches its onEvent
\* or its catch block runs.
ErrorHandled(k) ==
  \/ callPc[k] # "thrown" /\ callPc'[k] = "thrown"
  \/ ErrorsDelivered(delivered'[k]) > ErrorsDelivered(delivered[k])

\* C8 as stated: a step that handles an error of a chat request changes no
\* message but the request's assistant placeholder; every other message
\* keeps its content and position.
C8_ErrorTouchesOnlyPlaceholder ==
  [][\A k \in CallIds :
       ErrorHandled(k) =>
         /\ Len(messages') = Len(messages)
         /\ \A i \in DOMAIN messages :
              messages[i].id # AssistantId(k) => messages'[i] = messages[i]]_vars

\* C9 as stated: when the stream of a call broke after text was delivered
\* and before a terminal event, the call's assistant message still carries
\* the text delivered so far.
C9_PartialContentKept ==
  \A k \in CallIds :
    (callPc[k] = "thrown" /\ fullContent[k] # "" /\ Terminals(k) = 0) =>
      \A i \in DOMAIN messages :
        messages[i].id = AssistantId(k) => messages[i].content = fullContent[k]

\* C10: across addMessage, updateLastMessage and addFunctionCallToLastMessage
\* the list never shrinks, grows by one message at its end at most, keeps
\* every message at its position, and changes no message but the last.
C10_AppendOnly ==
  [][/\ Len(messages') >= Len(messages)
     /\ Len(messages') <= Len(messages) + 1
     /\ \A i \in DOMAIN messages :
          /\ messages'[i].id = messages[i].id
          /\ (i < Len(messages) \/ Len(messages') > Len(messages)) =>
               messages'[i] = messages[i]]_vars

\* Two messages: the first kept the content it was given while it was last,
\* the second was updated and got a function call after it was added.
C10_Witness ==
  /\ Len(messages) = 2
  /\ messages[1].content = "b" /\ messages[1].function_calls = <<>>
  /\ messages[2].content = "a" /\ Len(messages[2].function_calls) = 1

(***************************************************************************)
(* Text accumulation and tool invocations of a chat request.               *)
(***************************************************************************)
\* The contents of the text events of a log, concatenated in log order.
RECURSIVE TextOf(_)
TextOf(log) ==
  IF log = <<>> THEN ""
  ELSE (IF Head(log).type = "text" THEN Head(log).content ELSE "")
       \o TextOf(Tail(log))

\* C11 as stated: while a call streams and no error event reached it, the
\* content of its assistant message is the concatenation of the contents of
\* the text events delivered so far, in delivery order.
C11_ContentIsConcatenation ==
  \A k \in CallIds :
    (callPc[k] = "reading" /\ ErrorsDelivered(delivered[k]) = 0) =>
      \A i \in DOMAIN messages :
        messages[i].id = AssistantId(k) =>
          messages[i].content = TextOf(delivered[k])

\* The (name, args) entries of the function_call events of a log, in order.
RECURSIVE CallsOf(_)
CallsOf(log) ==
  IF log = <<>> THEN <<>>
  ELSE (IF Head(log).type = "function_call"
        THEN <<[name |-> Head(log).name, args |-> Head(log).args]>>
        ELSE <<>>)
       \o CallsOf(Tail(log))

\* C12 as stated: the function calls recorded on the assistant message of a
\* call are the function_call events delivered to that call, in delivery
\* order.
C12_CallsRecordedInOrder ==
  \A k \in CallIds :
    \A i \in DOMAIN messages :
      messages[i].id = AssistantId(k) =>
        messages[i].function_calls = CallsOf(delivered[k])

(***************************************************************************)
(* Task registry: repeated and late status updates.                        *)
(***************************************************************************)
\* C13: a status update that reaches a completed or failed task again (the
\* same terminal status a second time, or a late processing) leaves the
\* task as it is: status, detail, requeue count, deliveries and holders.
C13_TerminalUpdateIsNoOp ==
  [][\A t \in JobIds :
       duplicates'[t] # duplicates[t] =>
         /\ taskStatus'[t] = taskStatus[t]
         /\ taskDetail'[t] = taskDetail[t]
         /\ <<requeues'[t], deliveries'[t], holders'[t]>> =
              <<requeues[t], deliveries[t], holders[t]>>]_vars

\* A completed task that received completed again and a late processing.
C13_Witness ==
  \E t \in JobIds :
    taskStatus[t] = "completed" /\ duplicates[t] = {"completed", "processing"}

(***************************************************************************)
(* Conversation engine: the allow-list of functions.                       *)
(***************************************************************************)
\* C15: a tool call that names a function other than semantic_search,
\* get_media_details, count_media and filter_media_by_date is never
\* executed (it never enters the history and no tool-invocation event is
\* emitted for it), and it ends the request with one ToolNotFound error
\* event as the last event.
C15_UnknownToolRejected ==
  /\ \A i \in DOMAIN loopHistory :
       loopHistory[i] \in {"user", "assistant", "semantic_search",
                           "get_media_details", "count_media",
                           "filter_media_by_date"}
  /\ Cardinality({i \in DOMAIN loopEvents : loopEvents[i] = "tool_invocation"})
       = ToolRounds
  /\ loopLast = "unknown_tool" =>
       /\ loopPc = "error"
       /\ loopDetail = "ToolNotFound"
       /\ loopEvents[Len(loopEvents)] = "error"
       /\ Cardinality({i \in DOMAIN loopEvents : loopEvents[i] = "error"}) = 1
  /\ loopDetail = "ToolNotFound" => loopLast = "unknown_tool"

\* The provider asked for an unknown function after two allowed tool rounds.
C15_Witness ==
  /\ loopLast = "unknown_tool"
  /\ loopPc = "error"
  /\ ToolRounds = 2

(***************************************************************************)
(* Upload page: the rows a finished upload request updates.                *)
(***************************************************************************)
\* The list indexes of the rows that were appended for call b.
RowsOf(b) == batchStart[b]..(batchStart[b] + batchSize[b] - 1)

\* C16 as stated: the step in which the upload of call b succeeds shows
\* every row of call b, and no other row, as processing with progress 100
\* and the task id returned for its file; the other rows stay as they are.
C16_SuccessMarksOwnRows ==
  [][\A b \in BatchIds :
       (batchPc[b] = "uploading" /\ batchPc'[b] = "succeeded") =>
         \A idx \in DOMAIN uploadingFiles :
           IF idx \in RowsOf(b)
           THEN uploadingFiles'[idx] =
                  [file |-> FileOf(b, idx - batchStart[b]),
                   status |-> "processing", progress |-> 100,
                   taskId |-> TaskOf(b, idx - batchStart[b])]
           ELSE uploadingFiles'[idx] = uploadingFiles[idx]]_vars

\* C17 as stated: the step in which the upload of call b is rejected marks
\* every row of call b, and no other row, failed and gives none of them a
\* task id, so no TaskStatusPoller is mounted for them.
C17_RejectMarksOwnRows ==
  [][\A b \in BatchIds :
       (batchPc[b] = "uploading" /\ batchPc'[b] = "rejected") =>
         \A idx \in DOMAIN uploadingFiles :
           IF idx \in RowsOf(b)
           THEN /\ uploadingFiles'[idx].status = "failed"
                /\ uploadingFiles'[idx].taskId = 0
           ELSE uploadingFiles'[idx] = uploadingFiles[idx]]_vars

(***************************************************************************)
(* TaskStatusPoller: the status shown for a task and the polling of it.    *)
(***************************************************************************)
\* C18: the status last reported to onStatusChange is done for completed,
\* failed for failed, pending for pending, processing for processing and
\* for any other fetched value, and nothing was reported while no status
\* has been fetched.
C18_ReportedStatus ==
  \A t \in TaskIds :
    /\ (queryData[t] = "undefined") <=> (reported[t] = "none")
    /\ queryData[t] = "completed" => reported[t] = "done"
    /\ queryData[t] = "failed" => reported[t] = "failed"
    /\ queryData[t] = "pending" => reported[t] = "pending"
    /\ queryData[t] = "processing" => reported[t] = "processing"
    /\ queryData[t] \notin DeclaredStatuses \cup {"undefined"} =>
         reported[t] = "processing"

\* An unrecognized status was fetched and reported as processing.
C18_Witness ==
  \E t \in TaskIds : queryData[t] = "retrying" /\ reported[t] = "processing"

\* C19 as stated, for a task whose status the poller has reported: shown as
\* pending or processing, it is still polled; polling has stopped only for
\* one shown as done or failed.
C19_DisplayAgreesWithPolling ==
  \A t \in TaskIds :
    (mounted[t] /\ reported[t] # "none") =>
      /\ reported[t] \in {"pending", "processing"} => Polling(t)
      /\ ~Polling(t) => reported[t] \in {"done", "failed"}

\* C20 as stated: a step that hands stream events of call k to onEvent
\* changes no message but the assistant placeholder created for call k; the
\* messages that existed before the request, and the list's length, stay.
C20_EventsTouchOnlyPlaceholder ==
  [][\A k \in CallIds :
       Len(delivered'[k]) > Len(delivered[k]) =>
         /\ Len(messages') = Len(messages)
         /\ \A i \in DOMAIN messages :
              messages[i].id # AssistantId(k) => messages'[i] = messages[i]]_vars

(***************************************************************************)
(* Chat page: the end of a request.                                        *)
(***************************************************************************)
\* C21 as stated, for one request on its own: once api.sendMessage has
\* returned or thrown (the response stream has ended, with done, with
\* error, with a thrown error or with the body just ending) isStreaming is
\* false again.
C21_StreamingEndsWithStream ==
  \A k \in CallIds :
    (callPc[k] \in {"returned", "thrown"} /\ nCalls = 1) => ~isStreaming

(***************************************************************************)
(* The read loop of api.sendMessage.                                       *)
(***************************************************************************)
\* The events of the well-formed data lines of a body, in order.
RECURSIVE EventsOfKinds(_)
EventsOfKinds(kinds) ==
  IF kinds = <<>> THEN <<>>
  ELSE (IF Head(kinds) \in EventKinds THEN <<EventOf(Head(kinds))>> ELSE <<>>)
       \o EventsOfKinds(Tail(kinds))

\* C22 as stated: when the read loop has returned, every well-formed data
\* line of the body was handed to onEvent exactly once, in order, also a
\* last line that no newline follows.
C22_EveryDataLineDelivered ==
  \A r \in RunIds :
    rdPc[r] = "returned" => rdEvents[r] = EventsOfKinds(rdKinds)

\* C23: two runs of the read loop over the same newline-terminated body
\* hand the same events to onEvent in the same order, however each run's
\* reads cut the body; while they read, a run that is not ahead has
\* delivered a prefix of what the other has.
C23_ChunkingIndependent ==
  rdTerminated =>
    \A r \in RunIds, q \in RunIds :
      /\ (rdPc[r] = "returned" /\ rdPc[q] = "returned") => rdEvents[r] = rdEvents[q]
      /\ rdPos[r] <= rdPos[q] =>
           /\ Len(rdEvents[r]) <= Len(rdEvents[q])
           /\ rdEvents[r] = SubSeq(rdEvents[q], 1, Len(rdEvents[r]))

\* Two runs that cut a body of two events differently have both returned:
\* one read it whole, the other token by token.
C23_Witness ==
  /\ rdTerminated
  /\ rdPc[1] = "returned" /\ rdPc[2] = "returned"
  /\ Len(rdEvents[1]) >= 2
  /\ rdEvents[1] = rdEvents[2]
  /\ rdKinds = <<"text", "call">>

\* C24: of a newline-terminated body, a line without the data prefix, a
\* [DONE] line and a data line with a payload that is not JSON hand nothing
\* to onEvent and do not end the loop: when it has returned the events of
\* the valid data lines, those after a skipped line too, were delivered in
\* order.
C24_BadLinesSkipped ==
  \A r \in RunIds :
    (rdTerminated /\ rdPc[r] = "returned") =>
      /\ rdEvents[r] = EventsOfKinds(rdKinds)
      /\ Len(rdEvents[r]) =
           Cardinality({i \in DOMAIN rdKinds : rdKinds[i] \in EventKinds})

\* A body was read in which skipped lines, one of them with a payload that
\* is not JSON, come before a valid event, and that event was delivered.
C24_Witness ==
  \E r \in RunIds :
    /\ rdTerminated /\ rdPc[r] = "returned"
    /\ rdKinds \in {<<"comment", "bad", "text">>, <<"marker", "bad", "text">>}
    /\ Len(rdEvents[r]) = 1

(***************************************************************************)
(* Auth store and the 401 handling of the api client.                      *)
(***************************************************************************)
\* C25 as stated: the step in which a backend call is answered with 401
\* leaves the store without credentials and throws an ApiError of status
\* 401, whatever api method made the call.
C25_UnauthorizedClearsCredentials ==
  [][(Len(apiLog') > Len(apiLog) /\ apiLog'[Len(apiLog')].status = 401) =>
       /\ token' = Null
       /\ ~isAuthenticated'
       /\ apiLog'[Len(apiLog')].thrown = 401]_vars

\* C28: after any sequence of setAuth and logout calls isAuthenticated is
\* true exactly when token is not null.
C28_AuthenticatedIffToken ==
  isAuthenticated <=> token # Null

\* setAuth, logout and setAuth again: authenticated with a token.
C28_Witness ==
  /\ authLog = <<"setAuth", "logout", "setAuth">>
  /\ isAuthenticated
  /\ token = <<"t1">>

(***************************************************************************)
(* DashboardLayout: deleting a conversation.                               *)
(***************************************************************************)
\* C27 as stated: the step that ends a deletion leaves currentConversation
\* off the deleted conversation when the deletion succeeded, whatever was
\* selected while it was in flight, and leaves currentConversation as it
\* was when the deletion failed.
C27_DeletedNeverCurrent ==
  [][(deletePc = "pending" /\ deletePc' = "idle") =>
       IF deleteTarget \in deletedConvs'
       THEN currentConversation' # deleteTarget
       ELSE currentConversation' = currentConversation]_vars

(***************************************************************************)
(* Upload page: the TaskStatusPoller's effect and the list.                *)
(***************************************************************************)
\* The rows whose poller's effect is due.
PendingEffects == {i \in RowIds : effectPending[i]}

\* C26 as stated: a call of onStatusChange that changes no row (the polled
\* status has not changed) brings the page nearer to rest: it leaves fewer
\* effects due than before and sets off none.
C26_PollerReachesFixedPoint ==
  [][(statusCalls' > statusCalls /\ uploadingFiles' = uploadingFiles) =>
       /\ PendingEffects' \subseteq PendingEffects
       /\ PendingEffects' # PendingEffects]_vars

====
